---- MODULE Spec2Model ----
(***************************************************************************)
(* Model of semantic_release/cli.py: the version / changelog / publish     *)
(* commands, their command wrappers and the secret redactor.               *)
(* One behaviour of Spec is one process invocation of one command.         *)
(* Text is a sequence of one-character strings.                            *)
(***************************************************************************)
EXTENDS Integers, Sequences, FiniteSets, TLC

VARIABLES
    cmd,          \* the sub-command invoked: "version", "changelog", "publish"
    kwargs,       \* the request flags: retry, noop, force_level, post, unreleased
    config,       \* the [semantic_release] configuration section
    environ,      \* os.environ restricted to SECRET_NAMES
    token,        \* answer of hvcs.check_token() ("unknown" until asked)
    build,        \* answer of hvcs.check_build_status() ("unknown" until asked)
    work,         \* working tree: the version and the commit level readable in it
    branch,       \* the same for the release branch that checkout() switches to
    pc,           \* position of the process in the code
    v_current,    \* version(): local current_version
    v_new,        \* version(): local new_version
    v_ret,        \* version(): returned value ("none" before it returns)
    p_current,    \* publish(): local current_version
    p_new,        \* publish(): local new_version
    exc,          \* exception in flight
    calls,        \* collaborator calls performed so far, in order
    logs,         \* records handed to the logger, in order
    status,       \* process exit status ("running" until the command ends)
    message,      \* redactor harness: input text
    output        \* redactor harness: result of filter_output_for_secrets

vars == <<cmd, kwargs, config, environ, token, build, work, branch, pc, v_current, v_new, v_ret, p_current, p_new, exc,
          calls, logs, status, message, output>>

----------------------------------------------------------------------------
(* Bounds of the redactor harness *)
MaxTextLen == 3
MaxSecretLen == 2

----------------------------------------------------------------------------
(* Text and the secret redactor *)

SECRET_NAMES == <<"PYPI_USERNAME", "PYPI_PASSWORD", "GH_TOKEN", "GL_TOKEN">>

\* the characters of each secret name
NameChars(name) ==
    CASE name = "PYPI_USERNAME" -> <<"P","Y","P","I","_","U","S","E","R","N","A","M","E">>
      [] name = "PYPI_PASSWORD" -> <<"P","Y","P","I","_","P","A","S","S","W","O","R","D">>
      [] name = "GH_TOKEN" -> <<"G","H","_","T","O","K","E","N">>
      [] name = "GL_TOKEN" -> <<"G","L","_","T","O","K","E","N">>

\* "${}".format(secret_name)
Placeholder(name) == <<"$">> \o NameChars(name)

\* os.environ.get(name) is either None (unset) or a string
None == [isset |-> FALSE, val |-> <<>>]
Str(s) == [isset |-> TRUE, val |-> s]

\* s contains sub as a contiguous substring
Contains(s, sub) ==
    \E i \in 1..(Len(s) - Len(sub) + 1) : SubSeq(s, i, i + Len(sub) - 1) = sub

\* str.replace(old, new) for a non-empty old: the leftmost match is replaced,
\* then the search goes on after it, so replaced matches do not overlap
RECURSIVE Replace(_, _, _)
Replace(s, old, new) ==
    LET m == Len(old)
        found == {i \in 1..(Len(s) - m + 1) : SubSeq(s, i, i + m - 1) = old}
    IN  IF found = {} THEN s
        ELSE LET j == CHOOSE i \in found : \A k \in found : i <= k
             IN  SubSeq(s, 1, j - 1) \o new \o Replace(SubSeq(s, j + m, Len(s)), old, new)

\* one iteration of the loop over SECRET_NAMES
RedactOne(out, name) ==
    LET secret == environ[name]
    IN  IF secret.isset /\ secret.val # <<>>
        THEN Replace(out, secret.val, Placeholder(name))
        ELSE out

RECURSIVE RedactFrom(_, _)
RedactFrom(out, i) ==
    IF i > Len(SECRET_NAMES) THEN out
    ELSE RedactFrom(RedactOne(out, SECRET_NAMES[i]), i + 1)

filter_output_for_secrets(msg) == RedactFrom(msg, 1)

----------------------------------------------------------------------------
(* Versions and the history collaborators *)

NoVersion == <<0, 0, 0>>

\* the tags that exist when the command starts, oldest first
Tags == << <<1, 1, 0>>, <<1, 2, 3>>, <<1, 3, 0>> >>

\* history.get_new_version(current_version, level_bump)
get_new_version(current_version, level_bump) ==
    CASE level_bump = "major" -> <<current_version[1] + 1, 0, 0>>
      [] level_bump = "minor" -> <<current_version[1], current_version[2] + 1, 0>>
      [] level_bump = "patch" -> <<current_version[1], current_version[2], current_version[3] + 1>>
      [] OTHER -> current_version

\* history.evaluate_version_bump(current_version, force): the forced level,
\* else the level the commits of the working tree imply
evaluate_version_bump(current_version, force) ==
    IF force # "None" THEN force ELSE work.commits

\* history.get_previous_version(version): the tag released before it
get_previous_version(v) ==
    IF \E i \in 2..Len(Tags) : Tags[i] = v
    THEN Tags[(CHOOSE i \in 2..Len(Tags) : Tags[i] = v) - 1]
    ELSE NoVersion

----------------------------------------------------------------------------
(* Records of what the process did *)

Call(op, ver, prev, flag) == [op |-> op, ver |-> ver, prev |-> prev, flag |-> flag]
Op(op) == Call(op, NoVersion, NoVersion, FALSE)

\* a log record: origin is "static" for a fixed message, "exception" for
\* str(error), "dump" for a debug dump; raw is the text before any redaction
\* and text is what reaches the logger
Log(level, msg, origin, raw, text) ==
    [level |-> level, msg |-> msg, origin |-> origin, raw |-> raw, text |-> text]
Static(level, msg) == Log(level, msg, "static", <<>>, <<>>)

Logged(msg) == \E i \in 1..Len(logs) : logs[i].msg = msg

\* messages an exception may carry: with and without a secret value in them
ErrTexts == { <<"e">>, <<"e", "a", "b">> }
ConfigErrorText == <<"c">>
\* src is the call that raised
NoExc == [type |-> "none", msg |-> <<>>, src |-> "none"]
Exc(type, msg, src) == [type |-> type, msg |-> msg, src |-> src]

\* the environment of a release run: the hosting token is a secret
ReleaseEnv ==
    [n \in {SECRET_NAMES[i] : i \in 1..Len(SECRET_NAMES)} |->
        CASE n = "GH_TOKEN" -> Str(<<"a", "b">>)
          [] n = "PYPI_PASSWORD" -> Str(<<"p">>)
          [] n = "PYPI_USERNAME" -> Str(<<>>)
          [] OTHER -> None]

Trees == [version : {<<1, 2, 3>>, <<1, 3, 0>>}, commits : {"none", "minor"}]

Configs == [check_build_status : BOOLEAN,
            commit_version_number : {"unset", "true", "false"},
            version_source : {"commit", "tag"},
            remove_dist : BOOLEAN,
            upload_to_pypi : BOOLEAN,
            upload_to_release : BOOLEAN]

DefaultConfig == [check_build_status |-> FALSE, commit_version_number |-> "unset",
                  version_source |-> "commit", remove_dist |-> FALSE,
                  upload_to_pypi |-> FALSE, upload_to_release |-> FALSE]

Requests == [retry : BOOLEAN, noop : BOOLEAN, force_level : {"None", "major"},
             post : BOOLEAN, unreleased : BOOLEAN]

\* the locals and the records are empty before the command runs
Fresh ==
    /\ pc = "main"
    /\ token = "unknown" /\ build = "unknown"
    /\ v_current = NoVersion /\ v_new = NoVersion /\ v_ret = "none"
    /\ p_current = NoVersion /\ p_new = NoVersion
    /\ exc = NoExc
    /\ calls = <<>> /\ logs = <<>>
    /\ status = "running"

\* one invocation of one command; inputs a command never reads are fixed
Init ==
    /\ cmd \in {"version", "changelog", "publish"}
    /\ kwargs \in Requests
    /\ cmd = "changelog" => (~kwargs.retry /\ kwargs.force_level = "None")
    /\ cmd # "changelog" => (~kwargs.post /\ ~kwargs.unreleased)
    /\ config \in Configs
    /\ cmd = "changelog" => config = DefaultConfig
    /\ environ = ReleaseEnv
    /\ work \in Trees
    /\ branch \in Trees
    /\ cmd # "publish" => branch = work
    /\ Fresh
    /\ message = <<>> /\ output = <<>>

----------------------------------------------------------------------------
(* The group callback *)

inputs == <<cmd, kwargs, config, environ, message, output>>
locals == <<v_current, v_new, v_ret, p_current, p_new>>

RECURSIVE EnvDump(_)
\* the text main() builds from the secrets: NAME="value", for each name
EnvDump(i) ==
    IF i > Len(SECRET_NAMES) THEN <<>>
    ELSE LET n == SECRET_NAMES[i]
             v == IF environ[n].isset THEN environ[n].val ELSE <<"N", "o", "n", "e">>
         IN  NameChars(n) \o <<"=", "\"">> \o v \o <<"\"", ",">> \o EnvDump(i + 1)

main ==
    /\ pc = "main"
    /\ logs' = logs \o << Log("debug", "Main args", "args", <<>>, <<>>),
                          Log("debug", "Environment", "dump", EnvDump(1),
                              filter_output_for_secrets(EnvDump(1))),
                          Log("debug", "Main config", "args", <<>>, <<>>) >>
    /\ pc' = CASE cmd = "publish" -> "p188"
               [] cmd = "version" -> "v94"
               [] OTHER -> "c154"
    /\ UNCHANGED <<inputs, locals, token, build, work, branch, exc, calls, status>>

----------------------------------------------------------------------------
(* version() *)

\* where version() returns to: its command wrapper, or line 209 of publish()
AfterVersion == IF cmd = "version" THEN "returned" ELSE "p209"

NoChange_ignored(new_version, current_version) == FALSE

\* line 111
NoChange(new_version, current_version) ==
    new_version = current_version /\ ~kwargs.retry

NoopMode_ignored == FALSE

\* line 115
NoopMode == kwargs.noop = TRUE

GateEnabled_exceptOnRetry == config.check_build_status /\ ~kwargs.retry

\* line 122
GateEnabled == config.check_build_status

BuildFailed_ignored(passing) == FALSE

\* line 125: the release is cancelled unless the build is reported passing
BuildFailed(passing) == ~passing

RetryShortCircuit_missing == FALSE

\* line 130
RetryShortCircuit == kwargs.retry

\* lines 136-140: config.get() answers the configured string, and any
\* non-empty string is true; the fallback is a boolean
ShouldCommit ==
    IF config.commit_version_number # "unset" THEN TRUE
    ELSE config.version_source = "commit"

RetryLog == IF kwargs.retry THEN Static("info", "Retrying publication of the same version")
            ELSE Static("info", "Creating new version")

\* lines 94-106
version_DetermineVersion ==
    /\ pc = "v94"
    /\ \/ /\ v_current' = work.version
          /\ logs' = logs \o <<RetryLog, Static("info", "Current version")>>
          /\ pc' = "v108"
          /\ UNCHANGED v_ret
       \/ \E m \in ErrTexts :
          /\ logs' = logs \o <<RetryLog, Log("error", "GitError", "exception", m, m)>>
          /\ v_ret' = "False"
          /\ pc' = AfterVersion
          /\ UNCHANGED v_current
    /\ UNCHANGED <<inputs, v_new, p_current, p_new, token, build, work, branch,
                   exc, calls, status>>

\* lines 108-120
version_EvaluateBump ==
    /\ pc = "v108"
    /\ LET level_bump == evaluate_version_bump(v_current, kwargs.force_level)
           new_version == get_new_version(v_current, level_bump)
       IN  /\ calls' = Append(calls, Call("evaluate_version_bump", v_current, NoVersion, FALSE))
           /\ v_new' = new_version
           /\ IF NoChange(new_version, v_current)
              THEN /\ logs' = Append(logs, Static("info", "No release will be made."))
                   /\ v_ret' = "False"
                   /\ pc' = AfterVersion
              ELSE IF NoopMode
              THEN /\ logs' = Append(logs, Static("warning", "No operation mode."))
                   /\ v_ret' = "False"
                   /\ pc' = AfterVersion
              ELSE /\ pc' = "v122"
                   /\ UNCHANGED <<logs, v_ret>>
    /\ UNCHANGED <<inputs, v_current, p_current, p_new, token, build, work, branch,
                   exc, status>>

\* lines 122-128
version_BuildStatusGate ==
    /\ pc = "v122"
    /\ IF GateEnabled
       THEN \/ \E b \in BOOLEAN :
               /\ build' = (IF b THEN "passed" ELSE "failed")
               /\ calls' = Append(calls, Op("check_build_status"))
               /\ IF BuildFailed(b)
                  THEN /\ logs' = logs \o <<Static("info", "Checking build status..."),
                                            Static("warning", "The build failed, cancelling the release")>>
                       /\ v_ret' = "False"
                       /\ pc' = AfterVersion
                  ELSE /\ logs' = logs \o <<Static("info", "Checking build status..."),
                                            Static("info", "The build was a success, continuing the release")>>
                       /\ pc' = "v130"
                       /\ UNCHANGED v_ret
               /\ UNCHANGED exc
            \/ \E m \in ErrTexts :   \* get_current_head_hash() raises
               /\ exc' = Exc("GitError", m, "get_current_head_hash")
               /\ logs' = Append(logs, Static("info", "Checking build status..."))
               /\ pc' = "raised"
               /\ UNCHANGED <<build, calls, v_ret>>
       ELSE /\ pc' = "v130"
            /\ UNCHANGED <<build, calls, logs, v_ret, exc>>
    /\ UNCHANGED <<inputs, v_current, v_new, p_current, p_new, token, work, branch,
                   status>>

\* lines 130-145
version_BumpAndCommit ==
    /\ pc = "v130"
    /\ IF RetryShortCircuit
       THEN UNCHANGED <<work, calls, logs>>
       ELSE /\ work' = [work EXCEPT !.version = v_new]
            /\ calls' = calls \o <<Call("set_new_version", v_new, NoVersion, FALSE)>>
                        \o (IF ShouldCommit
                            THEN <<Call("commit_new_version", v_new, NoVersion, FALSE)>>
                            ELSE <<>>)
                        \o <<Call("tag_new_version", v_new, NoVersion, FALSE)>>
            /\ logs' = Append(logs, Static("info", "Bumping"))
    /\ v_ret' = "True"
    /\ pc' = AfterVersion
    /\ UNCHANGED <<inputs, v_current, v_new, p_current, p_new, token, build, branch,
                   exc, status>>

----------------------------------------------------------------------------
(* publish() *)

\* line 188: a failing lookup is not caught here
publish_GetCurrentVersion ==
    /\ pc = "p188"
    /\ \/ /\ p_current' = work.version
          /\ pc' = "p190"
          /\ UNCHANGED exc
       \/ \E m \in ErrTexts :
          /\ exc' = Exc("GitError", m, "get_current_version")
          /\ pc' = "raised"
          /\ UNCHANGED p_current
    /\ UNCHANGED <<inputs, v_current, v_new, v_ret, p_new, token, build, work,
                   branch, calls, logs, status>>

RetryPair_unswapped(read) == [new |-> get_previous_version(read), current |-> read]

\* lines 195-196: the version read becomes the new one, its predecessor the
\* current one
RetryPair(read) == [new |-> read, current |-> get_previous_version(read)]

\* lines 190-200
publish_VersionPair ==
    /\ pc = "p190"
    /\ IF kwargs.retry
       THEN /\ p_new' = RetryPair(p_current).new
            /\ p_current' = RetryPair(p_current).current
            /\ logs' = Append(logs, Static("info", "Retry is on"))
            /\ UNCHANGED calls
       ELSE /\ p_new' = get_new_version(p_current,
                            evaluate_version_bump(p_current, kwargs.force_level))
            /\ calls' = Append(calls, Call("evaluate_version_bump", p_current, NoVersion, FALSE))
            /\ UNCHANGED <<p_current, logs>>
    /\ pc' = "p202"
    /\ UNCHANGED <<inputs, v_current, v_new, v_ret, token, build, work, branch,
                   exc, status>>

\* lines 202-207: ci_checks.check(branch) may refuse, then checkout(branch)
publish_Checkout ==
    /\ pc = "p202"
    /\ \/ /\ calls' = Append(calls, Op("checkout"))
          /\ work' = branch
          /\ pc' = "v94"
          /\ UNCHANGED exc
       \/ \E m \in ErrTexts :
          /\ exc' = Exc("Exception", m, "ci_checks.check")
          /\ pc' = "raised"
          /\ UNCHANGED <<calls, work>>
    /\ UNCHANGED <<inputs, locals, token, build, branch, logs, status>>

VersionPerformed_anyReturn == v_ret # "none"

\* line 209: if version(**kwargs)
VersionPerformed == v_ret = "True"

\* lines 209-218
publish_Push ==
    /\ pc = "p209"
    /\ IF VersionPerformed
       THEN /\ calls' = Append(calls, Op("push_new_version"))
            /\ logs' = Append(logs, Static("info", "Pushing new version"))
            /\ \/ /\ pc' = "p220"
                  /\ UNCHANGED exc
               \/ \E m \in ErrTexts :
                  /\ exc' = Exc("GitError", m, "push_new_version")
                  /\ pc' = "raised"
       ELSE /\ pc' = "returned"
            /\ UNCHANGED <<calls, logs, exc>>
    /\ UNCHANGED <<inputs, locals, token, build, work, branch, status>>

BuildCalls_removeAfter ==
    <<Op("build_dists")>> \o (IF config.remove_dist THEN <<Op("remove_dists")>> ELSE <<>>)

\* lines 229-232: old distributions are removed before building
BuildCalls ==
    (IF config.remove_dist THEN <<Op("remove_dists")>> ELSE <<>>) \o <<Op("build_dists")>>

\* lines 220-232
publish_BuildArtifacts ==
    /\ pc = "p220"
    /\ IF config.upload_to_pypi \/ config.upload_to_release
       THEN /\ calls' = calls \o BuildCalls
            /\ logs' = Append(logs, Static("info", "Building distributions"))
       ELSE UNCHANGED <<calls, logs>>
    /\ pc' = "p234"
    /\ UNCHANGED <<inputs, locals, token, build, work, branch, exc, status>>

SkipExisting_never == FALSE

\* line 241: skip_existing=retry
SkipExisting == kwargs.retry

\* lines 234-242
publish_UploadPackageIndex ==
    /\ pc = "p234"
    /\ IF config.upload_to_pypi
       THEN /\ calls' = Append(calls, Call("upload_to_pypi", NoVersion, NoVersion, SkipExisting))
            /\ logs' = Append(logs, Static("info", "Uploading to PyPI"))
            /\ \/ /\ pc' = "p244"
                  /\ UNCHANGED exc
               \/ \E m \in ErrTexts :
                  /\ exc' = Exc("Exception", m, "upload_to_pypi")
                  /\ pc' = "raised"
       ELSE /\ pc' = "p244"
            /\ UNCHANGED <<calls, logs, exc>>
    /\ UNCHANGED <<inputs, locals, token, build, work, branch, status>>

\* line 255: the only exception the changelog step catches
CaughtByPostChangelog(type) == type = "GitError"

\* lines 244-258: check_token() answers t
publish_PostChangelog ==
    /\ pc = "p244"
    /\ \E t \in BOOLEAN :
       /\ token' = (IF t THEN "present" ELSE "missing")
       /\ IF t
          THEN \E failing \in {"none", "generate_changelog", "post_changelog"},
                  type \in {"GitError", "Exception"}, m \in ErrTexts :
               /\ failing = "none" => (type = "GitError" /\ m = <<"e">>)
               /\ calls' = calls
                     \o <<Call("generate_changelog", p_new, p_current, FALSE)>>
                     \o (IF failing = "generate_changelog" THEN <<>>
                         ELSE <<Call("post_changelog", p_new, NoVersion, FALSE)>>)
               /\ IF failing = "none"
                  THEN /\ logs' = Append(logs, Static("info", "Posting changelog to HVCS"))
                       /\ pc' = "p260"
                       /\ UNCHANGED exc
                  ELSE IF CaughtByPostChangelog(type)
                  THEN /\ logs' = logs \o <<Static("info", "Posting changelog to HVCS"),
                                            Static("error", "Posting changelog failed")>>
                       /\ pc' = "p260"
                       /\ UNCHANGED exc
                  ELSE /\ logs' = Append(logs, Static("info", "Posting changelog to HVCS"))
                       /\ exc' = Exc(type, m, failing)
                       /\ pc' = "raised"
          ELSE /\ logs' = Append(logs, Static("warning", "Missing token: cannot post changelog to HVCS"))
               /\ pc' = "p260"
               /\ UNCHANGED <<calls, exc>>
    /\ UNCHANGED <<inputs, locals, build, work, branch, status>>

ReleaseUploadEnabled_tokenless == config.upload_to_release

\* line 261: check_token() answers as before
ReleaseUploadEnabled == config.upload_to_release /\ token = "present"

\* lines 260-263
publish_UploadReleaseAssets ==
    /\ pc = "p260"
    /\ IF ReleaseUploadEnabled
       THEN /\ calls' = Append(calls, Call("upload_to_release", p_new, NoVersion, FALSE))
            /\ logs' = Append(logs, Static("info", "Uploading to HVCS release"))
            /\ \/ /\ pc' = "p264"
                  /\ UNCHANGED exc
               \/ \E m \in ErrTexts :
                  /\ exc' = Exc("Exception", m, "upload_to_release")
                  /\ pc' = "raised"
       ELSE /\ pc' = "p264"
            /\ UNCHANGED <<calls, logs, exc>>
    /\ UNCHANGED <<inputs, locals, token, build, work, branch, status>>

\* lines 264-268
publish_Cleanup ==
    /\ pc = "p264"
    /\ calls' = calls \o (IF config.remove_dist THEN <<Op("remove_dists")>> ELSE <<>>)
    /\ logs' = Append(logs, Static("info", "New release published"))
    /\ pc' = "returned"
    /\ UNCHANGED <<inputs, locals, token, build, work, branch, exc, status>>

----------------------------------------------------------------------------
(* changelog() *)

\* lines 154-169: get_current_version() answers a version, answers None or raises
changelog_Generate ==
    /\ pc = "c154"
    /\ \/ /\ v_current' = work.version
          /\ calls' = Append(calls,
                 IF kwargs.unreleased
                 THEN Call("generate_changelog", NoVersion, work.version, FALSE)
                 ELSE Call("generate_changelog", work.version,
                           get_previous_version(work.version), FALSE))
          /\ logs' = Append(logs, Static("info", "changelog"))
          /\ pc' = "c171"
          /\ UNCHANGED exc
       \/ /\ exc' = Exc("Exception", ConfigErrorText, "changelog")
          /\ pc' = "raised"
          /\ UNCHANGED <<v_current, calls, logs>>
       \/ \E m \in ErrTexts :
          /\ exc' = Exc("GitError", m, "get_current_version")
          /\ pc' = "raised"
          /\ UNCHANGED <<v_current, calls, logs>>
    /\ UNCHANGED <<inputs, v_new, v_ret, p_current, p_new, token, build, work,
                   branch, status>>

\* lines 171-183
changelog_Post ==
    /\ pc = "c171"
    /\ IF ~kwargs.noop /\ kwargs.post
       THEN \E t \in BOOLEAN :
            /\ token' = (IF t THEN "present" ELSE "missing")
            /\ IF t
               THEN /\ calls' = Append(calls, Call("post_changelog", v_current, NoVersion, FALSE))
                    /\ logs' = Append(logs, Static("info", "Posting changelog to HVCS"))
                    /\ \/ /\ pc' = "returned"
                          /\ UNCHANGED exc
                       \/ \E type \in {"GitError", "Exception"}, m \in ErrTexts :
                          /\ exc' = Exc(type, m, "post_changelog")
                          /\ pc' = "raised"
               ELSE /\ logs' = Append(logs, Static("error", "Missing token: cannot post changelog to HVCS"))
                    /\ pc' = "returned"
                    /\ UNCHANGED <<calls, exc>>
       ELSE /\ pc' = "returned"
            /\ UNCHANGED <<token, calls, logs, exc>>
    /\ UNCHANGED <<inputs, locals, build, work, branch, status>>

----------------------------------------------------------------------------
(* The command wrappers: lines 321-352 *)

ExitCode_always0(at) == "0"

ExitCode_always1(at) == "1"

\* exit(1) in the except clause of a wrapper, status 0 after a normal return
ExitCode(at) == IF at = "raised" THEN "1" ELSE "0"

\* logger.error(filter_output_for_secrets(str(error)))
ErrorLog(text) == Log("error", "error", "exception", text, filter_output_for_secrets(text))

\* lines 321-328
cmd_publish ==
    /\ cmd = "publish"
    /\ pc \in {"returned", "raised"}
    /\ IF pc = "raised"
       THEN logs' = Append(logs, ErrorLog(exc.msg))
       ELSE UNCHANGED logs
    /\ status' = ExitCode(pc)
    /\ pc' = "exit"
    /\ UNCHANGED <<inputs, locals, token, build, work, branch, exc, calls>>

\* lines 331-342
cmd_changelog ==
    /\ cmd = "changelog"
    /\ pc \in {"returned", "raised"}
    /\ IF pc = "raised"
       THEN logs' = Append(logs, ErrorLog(exc.msg))
       ELSE UNCHANGED logs
    /\ status' = ExitCode(pc)
    /\ pc' = "exit"
    /\ UNCHANGED <<inputs, locals, token, build, work, branch, exc, calls>>

\* lines 345-352
cmd_version ==
    /\ cmd = "version"
    /\ pc \in {"returned", "raised"}
    /\ IF pc = "raised"
       THEN logs' = Append(logs, ErrorLog(exc.msg))
       ELSE UNCHANGED logs
    /\ status' = ExitCode(pc)
    /\ pc' = "exit"
    /\ UNCHANGED <<inputs, locals, token, build, work, branch, exc, calls>>

----------------------------------------------------------------------------
(* The redactor on its own: every text and every assignment of the secrets *)

Alphabet == {"a", "U"}

RECURSIVE TextsOfLen(_)
TextsOfLen(n) ==
    IF n = 0 THEN { <<>> }
    ELSE { <<c>> \o t : c \in Alphabet, t \in TextsOfLen(n - 1) }

TextsUpTo(n) == UNION { TextsOfLen(k) : k \in 0..n }

SecretValues == {None} \cup { Str(s) : s \in TextsUpTo(MaxSecretLen) }

InitRedact ==
    /\ cmd = "redact"
    /\ kwargs \in {r \in Requests : ~r.retry /\ ~r.noop /\ r.force_level = "None"
                                     /\ ~r.post /\ ~r.unreleased}
    /\ config = DefaultConfig
    /\ environ \in [{SECRET_NAMES[i] : i \in 1..Len(SECRET_NAMES)} -> SecretValues]
    /\ work \in {t \in Trees : t.version = <<1, 2, 3>> /\ t.commits = "none"}
    /\ branch = work
    /\ Fresh
    /\ message \in TextsUpTo(MaxTextLen)
    /\ output = <<>>

\* lines 273-281
Redact ==
    /\ pc = "main"
    /\ cmd = "redact"
    /\ output' = filter_output_for_secrets(message)
    /\ pc' = "exit"
    /\ UNCHANGED <<cmd, kwargs, config, environ, message, locals, token, build,
                   work, branch, exc, calls, logs, status>>

----------------------------------------------------------------------------
Next ==
    \/ main
    \/ version_DetermineVersion
    \/ version_EvaluateBump
    \/ version_BuildStatusGate
    \/ version_BumpAndCommit
    \/ publish_GetCurrentVersion
    \/ publish_VersionPair
    \/ publish_Checkout
    \/ publish_Push
    \/ publish_BuildArtifacts
    \/ publish_UploadPackageIndex
    \/ publish_PostChangelog
    \/ publish_UploadReleaseAssets
    \/ publish_Cleanup
    \/ changelog_Generate
    \/ changelog_Post
    \/ cmd_publish
    \/ cmd_changelog
    \/ cmd_version

Spec == Init /\ [][Next]_vars

NextRedact == Redact

SpecRedact == InitRedact /\ [][NextRedact]_vars

----------------------------------------------------------------------------
(* Properties *)

Release == cmd \in {"version", "publish"}

Ops == {calls[i].op : i \in 1..Len(calls)}

VersionWrites == {"set_new_version", "commit_new_version", "tag_new_version"}

PublishSteps == {"push_new_version", "build_dists", "upload_to_pypi",
                 "post_changelog", "upload_to_release"}

\* C1: with noop set, version() and publish() perform none of the release
\* side effects (version write, commit, tag, push, build and removal of
\* distributions, uploads, changelog post) and version() never returns True.
C1_NoopHasNoEffect ==
    (Release /\ kwargs.noop) =>
        /\ Ops \cap (VersionWrites \cup PublishSteps \cup {"remove_dists"}) = {}
        /\ v_ret # "True"

\* a noop publish that would have bumped, run to its end
C1_Witness ==
    /\ cmd = "publish" /\ kwargs.noop /\ pc = "exit"
    /\ v_ret = "False" /\ v_new # v_current
    /\ Logged("No operation mode.")

\* C2: when build-status checking is enabled and the build of the head is
\* reported as not passing, version() returns False and no version write,
\* commit, tag, push, build, upload or changelog post happens, retry or not.
C2_FailedBuildCancels ==
    (Release /\ config.check_build_status /\ build = "failed") =>
        /\ v_ret = "False"
        /\ Ops \cap (VersionWrites \cup PublishSteps) = {}

\* a retried publish cancelled by the build gate, run to its end
C2_Witness ==
    /\ cmd = "publish" /\ kwargs.retry /\ build = "failed" /\ pc = "exit"
    /\ "check_build_status" \in Ops
    /\ status = "0"

\* C3: with retry set there is never a version write, a commit or a tag; and
\* a version() that read the current version, is not in noop mode and whose
\* build gate passed or is disabled returns True.
C3_RetryMutatesNothing ==
    (Release /\ kwargs.retry) =>
        /\ Ops \cap VersionWrites = {}
        /\ ( /\ v_ret # "none" /\ v_current # NoVersion /\ ~kwargs.noop
             /\ (~config.check_build_status \/ build = "passed") )
           => v_ret = "True"

\* a retried publish that went on to upload again
C3_Witness ==
    /\ cmd = "publish" /\ kwargs.retry /\ v_ret = "True" /\ pc = "exit"
    /\ "upload_to_pypi" \in Ops
    /\ status = "0"

\* C4: with retry set the bump evaluator is never run, neither by publish()
\* nor by version(), and the new version equals the current version read at
\* entry.
C4_RetryNeverEvaluatesBump ==
    (Release /\ kwargs.retry) =>
        /\ "evaluate_version_bump" \notin Ops
        /\ v_new # NoVersion => v_new = v_current

Lookups == {"get_current_version", "get_current_head_hash"}

\* C5: a failing lookup of the current version or of the head never leaves
\* version() or publish() as an exception, and the command does not exit
\* with status 1 because of it.
C5_LookupFailureRecovered ==
    Release => ~(exc.type = "GitError" /\ exc.src \in Lookups)

\* C6: in publish() no failure of the changelog generation or post leaves
\* the changelog step: the pipeline goes on and the command does not exit
\* with status 1 because of it.
C6_ChangelogFailureCaught ==
    cmd = "publish" => exc.src \notin {"generate_changelog", "post_changelog"}

Uploads == {"upload_to_pypi", "upload_to_release"}

\* C7: a failing package-index upload or release-asset upload leaves
\* publish(): the failing call is the last step performed (no changelog
\* post, release upload or cleanup follows it) and the command exits with 1.
C7_UploadFailureAborts ==
    (cmd = "publish" /\ exc.src \in Uploads) =>
        /\ calls[Len(calls)].op = exc.src
        /\ ~Logged("New release published")
        /\ pc \in {"raised", "exit"}
        /\ pc = "exit" => status = "1"

\* a failed release-asset upload after the package-index upload, at exit
C7_Witness ==
    /\ cmd = "publish" /\ exc.src = "upload_to_release" /\ pc = "exit"
    /\ "upload_to_pypi" \in Ops /\ config.remove_dist
    /\ status = "1"

\* C8: when version() returned True and no hosting token is available,
\* post_changelog and upload_to_release are never called and no error is
\* raised; the push happened, the package-index upload happened if it is
\* enabled, and publish() runs to its end with status 0.
C8_NoTokenSkipsHosting ==
    (cmd = "publish" /\ v_ret = "True" /\ token = "missing") =>
        /\ Ops \cap {"generate_changelog", "post_changelog", "upload_to_release"} = {}
        /\ exc = NoExc
        /\ "push_new_version" \in Ops
        /\ config.upload_to_pypi => "upload_to_pypi" \in Ops
        /\ pc \in {"p260", "p264", "returned", "exit"}
        /\ pc = "exit" => (status = "0" /\ Logged("New release published"))

\* a finished publish without token, with both uploads enabled
C8_Witness ==
    /\ cmd = "publish" /\ v_ret = "True" /\ token = "missing" /\ pc = "exit"
    /\ config.upload_to_pypi /\ config.upload_to_release
    /\ Logged("Missing token: cannot post changelog to HVCS")

Secrets == {environ[SECRET_NAMES[i]].val : i \in {j \in 1..Len(SECRET_NAMES) :
                /\ environ[SECRET_NAMES[j]].isset
                /\ environ[SECRET_NAMES[j]].val # <<>>}}

\* C9: for every text and every assignment of the four secrets, the output
\* of filter_output_for_secrets contains no occurrence of the value of a
\* non-empty secret, and without any such secret the text is unchanged.
C9_OutputHasNoSecret ==
    (cmd = "redact" /\ pc = "exit") =>
        /\ \A sv \in Secrets : ~Contains(output, sv)
        /\ Secrets = {} => output = message

\* C10: every text that comes from an exception or a debug dump reaches the
\* logger as the redactor's output for it.
C10_LoggedTextIsRedacted ==
    \A i \in 1..Len(logs) :
        logs[i].origin \in {"exception", "dump"} =>
            logs[i].text = filter_output_for_secrets(logs[i].raw)

\* C11: a command ends with exactly one exit status: none while it runs, 0
\* when its operation returned (success or a graceful no-op), 1 exactly when
\* an error left the operation, and then the redacted error text is the last
\* record logged before the exit.
C11_ExitStatus ==
    /\ pc # "exit" => status = "running"
    /\ pc = "exit" =>
        /\ status \in {"0", "1"}
        /\ status = "1" <=> exc # NoExc
        /\ status = "1" => logs[Len(logs)] = ErrorLog(exc.msg)
        /\ (Release /\ v_ret = "False" /\ exc = NoExc) => status = "0"

\* a changelog command ended by an error whose text held a secret
C11_Witness ==
    /\ cmd = "changelog" /\ pc = "exit" /\ status = "1"
    /\ exc.msg = <<"e", "a", "b">>
    /\ logs[Len(logs)].text # logs[Len(logs)].raw

\* version() has evaluated the bump
Evaluated == v_new # NoVersion

\* C12: when the evaluated version equals the current one and retry is not
\* set, version() returns False, the build status is not queried, nothing is
\* written, committed or tagged, and publish() pushes and uploads nothing.
C12_NoChangeNoRelease ==
    (Release /\ ~kwargs.retry /\ Evaluated /\ v_new = v_current) =>
        /\ v_ret = "False"
        /\ "check_build_status" \notin Ops
        /\ Ops \cap (VersionWrites \cup PublishSteps) = {}

\* a publish without commits to release, with the build check enabled
C12_Witness ==
    /\ cmd = "publish" /\ ~kwargs.retry /\ ~kwargs.noop /\ pc = "exit"
    /\ Evaluated /\ v_new = v_current
    /\ config.check_build_status /\ config.upload_to_pypi
    /\ Logged("No release will be made.")

\* C13: publish() pushes, builds, uploads, posts the changelog and cleans up
\* only after version() returned True; after a False none of them happens.
C13_StepsOnlyAfterTrue ==
    cmd = "publish" =>
        /\ Ops \cap (PublishSteps \cup {"remove_dists", "generate_changelog"}) # {}
              => v_ret = "True"
        /\ v_ret # "True" => ~Logged("New release published")

\* version() returned False and publish() ended without any step
C13_Witness ==
    /\ cmd = "publish" /\ v_ret = "False" /\ pc = "exit" /\ status = "0"
    /\ config.upload_to_release /\ config.remove_dist
    /\ build = "failed"

\* C14: in publish() with noop set no call changes the repository, the
\* checkout of the release branch included.
C14_NoopLeavesRepository ==
    (cmd = "publish" /\ kwargs.noop) =>
        Ops \cap ({"checkout", "push_new_version"} \cup VersionWrites) = {}

\* the place of call i in the pipeline: a removal of distributions belongs
\* to the build when build_dists follows it, to the cleanup otherwise
StepRank(i) ==
    LET op == calls[i].op
    IN  CASE op = "tag_new_version" -> 1
          [] op = "push_new_version" -> 2
          [] op = "remove_dists" ->
                IF i < Len(calls) /\ calls[i + 1].op = "build_dists" THEN 3 ELSE 9
          [] op = "build_dists" -> 4
          [] op = "upload_to_pypi" -> 5
          [] op = "generate_changelog" -> 6
          [] op = "post_changelog" -> 7
          [] op = "upload_to_release" -> 8
          [] OTHER -> 0

\* C15: the steps of publish() happen in the order push, removal of stale
\* distributions, build, package-index upload, changelog post, release
\* upload, cleanup, each at most once, the push after the tag; the release
\* is reported published only after the last of them.
C15_PipelineOrder ==
    cmd = "publish" =>
        /\ \A i, j \in 1..Len(calls) :
              (i < j /\ StepRank(i) > 0 /\ StepRank(j) > 0) => StepRank(i) < StepRank(j)
        /\ Logged("New release published") => pc \in {"returned", "exit"}

\* a fresh publish with every step, at its end
C15_Witness ==
    /\ cmd = "publish" /\ ~kwargs.retry /\ pc = "exit" /\ status = "0"
    /\ {"tag_new_version", "push_new_version", "remove_dists", "build_dists",
        "upload_to_pypi", "post_changelog", "upload_to_release"} \subseteq Ops
    /\ calls[Len(calls)].op = "remove_dists"

\* the first call of op among the calls, 0 when there is none
FirstCall(op) ==
    IF op \in Ops THEN CHOOSE i \in 1..Len(calls) :
                          /\ calls[i].op = op
                          /\ \A k \in 1..(i - 1) : calls[k].op # op
    ELSE 0

\* C16: version() goes through its stages in order: the no-change check
\* comes before the noop check, the build status is never queried for a noop
\* request or without a version change, the query comes after the
\* evaluation and before any write, and a retry returns True only through
\* the build gate when the gate is enabled.
C16_StageOrder ==
    Release =>
        /\ (kwargs.noop \/ (Evaluated /\ v_new = v_current /\ ~kwargs.retry))
              => "check_build_status" \notin Ops
        /\ Logged("No operation mode.") => (v_new # v_current \/ kwargs.retry)
        /\ "check_build_status" \in Ops =>
              /\ Evaluated
              /\ "set_new_version" \in Ops =>
                    FirstCall("check_build_status") < FirstCall("set_new_version")
        /\ (kwargs.retry /\ config.check_build_status /\ v_ret = "True")
              => build = "passed"
        /\ v_ret = "True" => Evaluated

\* a retried version command that passed the enabled build gate
C16_Witness ==
    /\ cmd = "version" /\ kwargs.retry /\ config.check_build_status
    /\ v_ret = "True" /\ build = "passed" /\ pc = "exit"

\* the commit the configuration asks for
CommitWanted ==
    \/ config.commit_version_number = "true"
    \/ config.commit_version_number = "unset" /\ config.version_source = "commit"

\* C17: a fresh version() that bumps writes the version, then commits it
\* if and only if commit_version_number is true or, when it is not
\* configured, the version source is the commit, then tags; True is
\* returned only after the tag.
C17_CommitFollowsConfiguration ==
    (Release /\ "set_new_version" \in Ops) =>
        /\ "commit_new_version" \in Ops <=> CommitWanted
        /\ "tag_new_version" \in Ops
        /\ FirstCall("set_new_version") < FirstCall("tag_new_version")
        /\ "commit_new_version" \in Ops =>
              /\ FirstCall("set_new_version") < FirstCall("commit_new_version")
              /\ FirstCall("commit_new_version") < FirstCall("tag_new_version")
        /\ v_ret = "True"

\* C18: in a retried publish() the new version is the version read at entry
\* and the current one its predecessor; the changelog is generated for that
\* pair, and the changelog post and the release upload name the version read
\* at entry.
C18_RetryPairSwapped ==
    (cmd = "publish" /\ kwargs.retry /\ p_new # NoVersion) =>
        /\ pc = "p202" => p_new = work.version
        /\ p_current = get_previous_version(p_new)
        /\ \E k \in 2..Len(Tags) : Tags[k] = p_new /\ Tags[k - 1] = p_current
        /\ \A i \in 1..Len(calls) :
              /\ calls[i].op = "generate_changelog" =>
                    (calls[i].prev = p_current /\ calls[i].ver = p_new)
              /\ calls[i].op \in {"post_changelog", "upload_to_release"} =>
                    calls[i].ver = p_new

\* a retried publish of 1.3.0 that posted the changelog and uploaded again
C18_Witness ==
    /\ cmd = "publish" /\ kwargs.retry /\ pc = "exit"
    /\ p_new = <<1, 3, 0>> /\ p_current = <<1, 2, 3>>
    /\ {"post_changelog", "upload_to_release"} \subseteq Ops

\* C19: every package-index upload is told to skip existing files exactly
\* when the request is a retry.
C19_SkipExistingIffRetry ==
    \A i \in 1..Len(calls) :
        calls[i].op = "upload_to_pypi" => (calls[i].flag <=> kwargs.retry)

\* a retried upload to the package index
C19_Witness ==
    /\ cmd = "publish" /\ kwargs.retry /\ pc = "p244"
    /\ calls[Len(calls)].op = "upload_to_pypi" /\ calls[Len(calls)].flag

\* C20: in a fresh publish() the version given to post_changelog and to
\* upload_to_release is the version that version() wrote and tagged.
C20_AnnouncedIsTagged ==
    (cmd = "publish" /\ ~kwargs.retry) =>
        \A i \in 1..Len(calls) :
            calls[i].op \in {"post_changelog", "upload_to_release"} =>
                \E k \in 1..Len(calls) :
                    calls[k].op = "tag_new_version" /\ calls[k].ver = calls[i].ver

====
